---- MODULE Spec2Model ----
(***************************************************************************)
(* A model of vkquick's command dispatch (Bot.listen_events,               *)
(* Bot.pass_event_trough_commands, the debugger and the                    *)
(* POST_EVENT_HANDLING signal) and of its text-argument cutters            *)
(* (List over a Bool element).                                             *)
(*                                                                         *)
(* The bot runs on asyncio's single-threaded cooperative scheduler: every  *)
(* action below is one run of a coroutine from one suspension point to the *)
(* next.  Strings handled by the cutters are sequences of one-character    *)
(* strings.                                                                *)
(***************************************************************************)
EXTENDS Integers, Sequences, FiniteSets, TLC

\* ------------------------------------------------------------------ bounds

\* The number of dispatch units (command.handle_event tasks) one run creates:
\* (events received) * (commands registered) <= MaxUnits.
MaxUnits == 4

\* The number of events the events generator hands over in one run.
MaxEvents == 2

\* The length of the strings List.cut_part is called on.
MaxLen == 6

\* List.min_length ranges over 0..MaxMin, a bounded List.max_length over 0..MaxMax.
MaxMin == 2

MaxMax == 3

\* the longest extension alias of a Bool matcher
MaxAlias == 2

\* the most aliases in one extension list of a Bool matcher
MaxExt == 1

\* the longest string the Integer matcher is called on
MaxNum == 4

\* the longest string a SimplifiedTextArgument is called on
MaxSimple == 3

\* the most filters (argument cutters included) in one command's chain
MaxFilters == 3

\* the most lists of events the generator yields in one run
MaxLists == 3

\* the most reactions that call fetch_new_event
MaxWaiters == 2

\* the most events listen_events receives while reactions wait
MaxReceived == 2

\* the most calls of _set_new_event
MaxSets == 2

\* the most arguments of one Keyboard.build call
MaxArgs == 3

\* the most buttons in a keyboard
MaxButtons == 3

\* the most lines in a keyboard
MaxLines == 3

\* the most colour method calls on one button
MaxColourCalls == 2

\* ------------------------------------------------------------------ state

VARIABLES
    release,        \* Bot.release: the VKQUICK_RELEASE flag (cached)
    commands,       \* Bot._commands: the ordered command registry
    events,         \* the events received so far; events[e] is the type of event e
    lpc,            \* where listen_events is suspended: "poll" or "lookup"
    cursor,         \* the number of events the `for event in events` loop has passed
    enriched,       \* the events on which set_message(extended_message) was called
    on_signals,     \* the events for which the on_<type> signal task was created
    bpc,            \* per event: where its pass_event_trough_commands task is
    unit,           \* per event, per command: the handle_event task
    order,          \* per event: the command indexes in the order their tasks completed
    handling_info,  \* per event: the value `await asyncio.gather(*tasks)` returned
    debugged,       \* per event: what show_debug_info did
    signalled,      \* per event: the POST_EVENT_HANDLING notifications, as <<event, statuses>>
    traceback,      \* the events whose batch ran traceback.print_exc()
    min_length,     \* List.min_length
    max_length,     \* List.max_length (Ellipsis: unbounded)
    arguments_string, \* the string List.cut_part is called on
    cut_result,     \* what List.cut_part returned
    cutter,         \* a constructed text cutter (Bool, Integer, SimplifiedTextArgument)
    text,           \* the string that cutter's cut_part is called on
    cut,            \* what that cut_part returned
    filter_chain,   \* Command.filter_chain: the filters and argument cutters, in declaration order
    cpc,            \* the state of one (event, command) evaluation
    cur,            \* the index of the filter being evaluated
    status,         \* the HandlingStatus being assembled
    invoked,        \* how many times the reaction was invoked
    rpc,            \* where async_run is suspended
    called,         \* the calls async_run and listen_events have made, in order
    cause,          \* why the try block of async_run was left
    fin,            \* how the finally block of async_run ended
    event_waiters,  \* Bot.event_waiters: the futures of the reactions in fetch_new_event
    futures,        \* every future fetch_new_event has created, and its coroutine
    received,       \* how many events listen_events has taken from the generator
    deliveries,     \* the _set_new_event calls made: the event given and whether the call raised
    scheme,         \* Keyboard.scheme
    kb_call,        \* the last call made on the keyboard
    button,         \* a Button object
    coloured        \* the calls made on Button and on the button, and how each ended

botVars == <<release, commands, events, lpc, cursor, enriched, on_signals, bpc,
             unit, order, handling_info, debugged, signalled, traceback>>

listVars == <<min_length, max_length, arguments_string, cut_result>>

cutterVars == <<cutter, text, cut>>

cmdVars == <<filter_chain, cpc, cur, status, invoked>>

runVars == <<rpc, called, cause, fin>>

waiterVars == <<event_waiters, futures, received, deliveries>>

kbVars == <<scheme, kb_call>>

btnVars == <<button, coloured>>

notBot ==
    <<listVars, cutterVars, cmdVars, runVars, waiterVars, kbVars, btnVars>>

notList ==
    <<botVars, cutterVars, cmdVars, runVars, waiterVars, kbVars, btnVars>>

notCutter ==
    <<botVars, listVars, cmdVars, runVars, waiterVars, kbVars, btnVars>>

notCmd ==
    <<botVars, listVars, cutterVars, runVars, waiterVars, kbVars, btnVars>>

notRun ==
    <<botVars, listVars, cutterVars, cmdVars, waiterVars, kbVars, btnVars>>

notWaiter ==
    <<botVars, listVars, cutterVars, cmdVars, runVars, kbVars, btnVars>>

notKb ==
    <<botVars, listVars, cutterVars, cmdVars, runVars, waiterVars, btnVars>>

notBtn ==
    <<botVars, listVars, cutterVars, cmdVars, runVars, waiterVars, kbVars>>

vars ==
    <<botVars, listVars, cutterVars, cmdVars, runVars, waiterVars, kbVars, btnVars>>

\* ------------------------------------------------------------------ events

\* The names the registry is filled from, in registration order.
Pool == <<"A", "B", "C", "D", "E", "F">>

\* Event types: "message_new" and "message_edit" come from the group long poll,
\* "4" is the user long poll's new-message code (the integer 4 of the source).
EventTypes == {"message_new", "4", "message_edit"}

CommandBearing(type) == type \in {"message_new", "4"}

\* Event.from_group: the group long poll's events carry string types.
from_group(type) == type \in {"message_new", "message_edit"}

Range(s) == {s[i] : i \in DOMAIN s}

SetMin(S) == CHOOSE x \in S : \A y \in S : x <= y

\* ------------------------------------------------------------------ one dispatch unit

NoDebug == [shown |-> "none", schemes |-> <<>>, exceptions |-> <<>>]

\* A task created by asyncio.create_task(command.handle_event(event, shared_box)).
RunningUnit(cmd) ==
    [st |-> "running", reaction |-> "none", handler |-> cmd, exception_text |-> ""]

UnitOutcomes == {"returned", "raised", "internal"}

\* Command.handle_event: a reaction that raises is caught at the command's
\* boundary and recorded as exception_text; a failure outside that boundary
\* ("internal") leaves the task with an exception.
handle_event(cmd, outcome) ==
    CASE outcome = "returned" ->
            [st |-> "done", reaction |-> "returned", handler |-> cmd, exception_text |-> ""]
      [] outcome = "raised" ->
            [st |-> "done", reaction |-> "raised", handler |-> cmd,
             exception_text |-> "Traceback"]
      [] OTHER ->
            [st |-> "failed", reaction |-> "none", handler |-> cmd, exception_text |-> ""]

\* The HandlingStatus a finished task holds.
StatusOf(u) == [handler |-> u.handler, exception_text |-> u.exception_text]

\* ------------------------------------------------------------------ asyncio.gather(*tasks)

GatherRaises_onExceptionText(us) ==
    \E i \in DOMAIN us : us[i].st = "failed" \/ us[i].exception_text # ""

\* gather (return_exceptions=False) raises as soon as one task has raised.
GatherRaises(us) == \E i \in DOMAIN us : us[i].st = "failed"

GatherReturns_firstCompleted(us) ==
    /\ ~GatherRaises(us)
    /\ (us = <<>> \/ \E i \in DOMAIN us : us[i].st = "done")

\* gather returns once every task has returned.
GatherReturns(us) == \A i \in DOMAIN us : us[i].st = "done"

GatherValue_completionOrder(us, ord) ==
    [k \in 1..Len(us) |-> StatusOf(us[IF k <= Len(ord) THEN ord[k] ELSE k])]

\* gather's value: the results in the order of the awaitables.
GatherValue(us, ord) == [i \in 1..Len(us) |-> StatusOf(us[i])]

AfterGatherException_uncaught == "crashed"

\* `except Exception: traceback.print_exc()`: the batch ends there.
AfterGatherException == "failed"

\* ------------------------------------------------------------------ the debugger

\* ColoredDebugger.build_exception: the schemes that carry an exception_text,
\* in scheme order.
build_exception(schemes) ==
    LET hasExc(s) == s.exception_text # ""
        picked == SelectSeq(schemes, hasExc)
    IN  [i \in 1..Len(picked) |-> picked[i].handler]

\* Bot.show_debug_message_for_release: the exception_text of every status
\* that has one, in the order of the statuses.  Nothing in Bot calls it.
show_debug_message_for_release(schemes) ==
    LET hasExc(s) == s.exception_text # ""
        picked == SelectSeq(schemes, hasExc)
    IN  [i \in 1..Len(picked) |-> picked[i].exception_text]

\* ------------------------------------------------------------------ text arguments

\* The characters of the strings cut here: two Bool aliases ("1" is a true
\* alias, "0" a false alias), the space str.lstrip() strips, and a letter no
\* alias starts with.
Alphabet == {"1", "0", " ", "x"}

Strings(n) == UNION {[1..k -> Alphabet] : k \in 0..n}

\* `max_length: ty.Optional[int] = ...`: the unbounded maximum.
Ellipsis == -1

Drop(s, n) == SubSeq(s, n + 1, Len(s))

\* str.lstrip()
RECURSIVE lstrip(_)
lstrip(s) == IF s # <<>> /\ Head(s) = " " THEN lstrip(Tail(s)) ELSE s

\* re.IGNORECASE: the lower-case form of a character (a non-ASCII character is
\* written as its code point).
LowerMap ==
    "A" :> "a" @@ "B" :> "b" @@ "C" :> "c" @@ "D" :> "d"
    @@ "E" :> "e" @@ "F" :> "f" @@ "G" :> "g" @@ "H" :> "h"
    @@ "I" :> "i" @@ "J" :> "j" @@ "K" :> "k" @@ "L" :> "l"
    @@ "M" :> "m" @@ "N" :> "n" @@ "O" :> "o" @@ "P" :> "p"
    @@ "Q" :> "q" @@ "R" :> "r" @@ "S" :> "s" @@ "T" :> "t"
    @@ "U" :> "u" @@ "V" :> "v" @@ "W" :> "w" @@ "X" :> "x"
    @@ "Y" :> "y" @@ "Z" :> "z" @@ "U+0410" :> "U+0430" @@ "U+0411" :> "U+0431"
    @@ "U+0412" :> "U+0432" @@ "U+0413" :> "U+0433" @@ "U+0414" :> "U+0434" @@ "U+0415" :> "U+0435"
    @@ "U+0416" :> "U+0436" @@ "U+0417" :> "U+0437" @@ "U+0418" :> "U+0438" @@ "U+0419" :> "U+0439"
    @@ "U+041A" :> "U+043A" @@ "U+041B" :> "U+043B" @@ "U+041C" :> "U+043C" @@ "U+041D" :> "U+043D"
    @@ "U+041E" :> "U+043E" @@ "U+041F" :> "U+043F" @@ "U+0420" :> "U+0440" @@ "U+0421" :> "U+0441"
    @@ "U+0422" :> "U+0442" @@ "U+0423" :> "U+0443" @@ "U+0424" :> "U+0444" @@ "U+0425" :> "U+0445"
    @@ "U+0426" :> "U+0446" @@ "U+0427" :> "U+0447" @@ "U+0428" :> "U+0448" @@ "U+0429" :> "U+0449"
    @@ "U+042A" :> "U+044A" @@ "U+042B" :> "U+044B" @@ "U+042C" :> "U+044C" @@ "U+042D" :> "U+044D"
    @@ "U+042E" :> "U+044E" @@ "U+042F" :> "U+044F"

Lower(c) == IF c \in DOMAIN LowerMap THEN LowerMap[c] ELSE c

IsPrefix(a, s) ==
    /\ Len(a) <= Len(s)
    /\ \A i \in 1..Len(a) : Lower(a[i]) = Lower(s[i])

\* Bool.__init__: the built-in aliases, in the order of the alternation
\* (r"\+" is the literal plus sign).
true_values ==
    << <<"t", "r", "u", "e">>,
       <<"1">>,
       <<"y", "e", "s">>,
       <<"y">>,
       <<"U+0434", "U+0430">>,
       <<"U+0434">>,
       <<"U+0438", "U+0441", "U+0442", "U+0438", "U+043D", "U+0430">>,
       <<"+">>,
       <<"U+043F", "U+0440", "U+0430", "U+0432", "U+0434", "U+0430">>,
       <<"t">>,
       <<"o", "n">>,
       <<"U+0432", "U+043A", "U+043B">>,
       <<"e", "n", "a", "b", "l", "e">> >>

false_values ==
    << <<"f", "a", "l", "s", "e">>,
       <<"0">>,
       <<"n", "o">>,
       <<"n">>,
       <<"U+043D", "U+0435", "U+0442">>,
       <<"U+043D">>,
       <<"U+043B", "U+043E", "U+0436", "U+044C">>,
       <<"-">>,
       <<"U+043D", "U+0435", "U+043F", "U+0440", "U+0430", "U+0432", "U+0434", "U+0430">>,
       <<"f">>,
       <<"o", "f", "f">>,
       <<"U+0432", "U+044B", "U+043A", "U+043B">>,
       <<"d", "i", "s", "a", "b", "l", "e">> >>

UnmatchedArgument == "UnmatchedArgument"

\* TextArgument.cut_part_lite on the alternation (?:a1|a2|...): re.match takes
\* the first alternative, in the order written, that is a prefix of the
\* string, and the rest of the string is what follows it; with no match the
\* string comes back whole.
cut_part_lite(aliases, s) ==
    LET hits == {k \in 1..Len(aliases) : IsPrefix(aliases[k], s)}
    IN  IF hits = {}
        THEN [value |-> UnmatchedArgument, rest |-> s]
        ELSE [value |-> "matched", rest |-> Drop(s, Len(aliases[SetMin(hits)]))]

\* Bool.__init__: the extension aliases are appended after the built-in ones,
\* as they are given, and each list becomes one alternation.
Bool(true_extension, false_extension) ==
    [cls |-> "Bool",
     true_regex |-> true_values \o true_extension,
     false_regex |-> false_values \o false_extension]

\* Bool.cut_part: the true alternation first, then the false one.
Bool_cut_part_of(self, s) ==
    LET t == cut_part_lite(self.true_regex, s)
        f == cut_part_lite(self.false_regex, s)
    IN  IF t.value # UnmatchedArgument THEN [value |-> "True", rest |-> t.rest]
        ELSE IF f.value # UnmatchedArgument THEN [value |-> "False", rest |-> f.rest]
        ELSE [value |-> UnmatchedArgument, rest |-> f.rest]

\* Bool().cut_part: the matcher built without extensions.
Bool_cut_part(s) == Bool_cut_part_of(Bool(<<>>, <<>>), s)

\* ------------------------------------------------------------------ Integer (float_.py)

Digits == {"4", "2"}

\* the character class [+|-] of the pattern: it holds the bar as well
SignClass == {"+", "|", "-"}

RECURSIVE DigitRun(_)
DigitRun(s) == IF s # <<>> /\ Head(s) \in Digits THEN 1 + DigitRun(Tail(s)) ELSE 0

\* \d*(?:\.\d+) applied at position k + 1 of s: the end of the match, 0 when
\* there is none (the group is not optional: a match never ends at 0).
FractionEnd(s, k) ==
    LET a == Drop(s, k)
        d == DigitRun(a)
        b == Drop(a, d)
        f == IF b # <<>> /\ Head(b) = "." THEN DigitRun(Tail(b)) ELSE 0
    IN  IF f > 0 THEN k + d + 1 + f ELSE 0

\* Integer._pattern = r"[+|-]?\d*(?:\.\d+)" matched at the start of s: the
\* sign is tried first, then the match without it.
Integer_pattern(s) ==
    LET sign == IF s # <<>> /\ Head(s) \in SignClass THEN 1 ELSE 0
    IN  IF FractionEnd(s, sign) > 0 THEN FractionEnd(s, sign) ELSE FractionEnd(s, 0)

\* cut_part_via_regex: the matched text and what follows it, or no match.
cut_part_via_regex(end, s) ==
    IF end = 0
    THEN [matched |-> FALSE, value |-> <<>>, rest |-> s]
    ELSE [matched |-> TRUE, value |-> SubSeq(s, 1, end), rest |-> Drop(s, end)]

\* Integer.cut_part
Integer_cut_part(s) == cut_part_via_regex(Integer_pattern(s), s)

\* ------------------------------------------------------------------ SimplifiedTextArgument

\* The patterns a quick-build matcher is constructed from in this model: a
\* run of digits, a run of the letter x.
Patterns == {"[0-9]+", "x+"}

PatternClass(re_pattern) == IF re_pattern = "[0-9]+" THEN Digits ELSE {"x"}

\* re.match of such a pattern at the start of s: the end of the match, 0 for none.
RECURSIVE PatternEnd(_, _)
PatternEnd(re_pattern, s) ==
    IF s # <<>> /\ Head(s) \in PatternClass(re_pattern)
    THEN 1 + PatternEnd(re_pattern, Tail(s))
    ELSE 0

\* SimplifiedTextArgument.__init__: the body is `...`, nothing is stored.
\* (built_from records the argument for the statements below; cut_part does
\* not read it.)
SimplifiedTextArgument(re_pattern) ==
    [cls |-> "SimplifiedTextArgument", built_from |-> re_pattern]

\* SimplifiedTextArgument.cut_part: always re.compile(r".+", flags=re.DOTALL),
\* which takes the whole of a non-empty string, line breaks included.
Simplified_cut_part(self, s) ==
    IF s = <<>>
    THEN [matched |-> FALSE, value |-> <<>>, rest |-> s]
    ELSE [matched |-> TRUE, value |-> s, rest |-> <<>>]

NoCut == [kind |-> "none"]

Cut(result) == [kind |-> "returned", result |-> result]

NoResult == [kind |-> "none", values |-> <<>>, remainder |-> <<>>, calls |-> 0]

\* The while loop of List.cut_part; `calls` counts the calls of
\* self.element.cut_part.
RECURSIVE ListLoop(_, _, _, _, _)
ListLoop(values, remaining_string, calls, min, max) ==
    IF max = Ellipsis \/ Len(values) < max
    THEN LET stripped == lstrip(remaining_string)
             r == Bool_cut_part(stripped)
         IN  IF r.value = UnmatchedArgument
             THEN IF Len(values) > min
                  THEN [kind |-> "Matched", values |-> values,
                        remainder |-> r.rest, calls |-> calls + 1]
                  ELSE [kind |-> "Unmatched", values |-> <<>>,
                        remainder |-> r.rest, calls |-> calls + 1]
             ELSE ListLoop(Append(values, r.value), r.rest, calls + 1, min, max)
    ELSE [kind |-> "Matched", values |-> values,
          remainder |-> remaining_string, calls |-> calls]

\* List.cut_part
List_cut_part(s, min, max) == ListLoop(<<>>, s, 0, min, max)

\* ------------------------------------------------------------------ Init

\* The bot before listen_events has received anything.
BotStart ==
    /\ events = <<>>
    /\ lpc = "poll"
    /\ cursor = 0
    /\ enriched = {}
    /\ on_signals = {}
    /\ bpc = <<>>
    /\ unit = <<>>
    /\ order = <<>>
    /\ handling_info = <<>>
    /\ debugged = <<>>
    /\ signalled = <<>>
    /\ traceback = {}

\* No List.cut_part call is in progress: a List with its default bounds.
ListIdle ==
    /\ min_length = 1
    /\ max_length = Ellipsis
    /\ arguments_string = <<>>
    /\ cut_result = NoResult

CutterIdle ==
    /\ cutter = [cls |-> "none"]
    /\ text = <<>>
    /\ cut = NoCut

\* A HandlingStatus as it is created for an (event, command) pair.
FreshStatus ==
    [filters_response |-> <<>>, all_filters_passed |-> FALSE,
     passed_arguments |-> <<>>, exception_text |-> ""]

CmdIdle ==
    /\ filter_chain = <<>>
    /\ cpc = "PENDING"
    /\ cur = 0
    /\ status = FreshStatus
    /\ invoked = 0

RunIdle ==
    /\ rpc = "created"
    /\ called = <<>>
    /\ cause = "none"
    /\ fin = "none"

WaiterIdle ==
    /\ event_waiters = <<>>
    /\ futures = <<>>
    /\ received = 0
    /\ deliveries = <<>>

\* Keyboard(): one_time=True, inline=False
KbIdle ==
    /\ scheme = [inline |-> FALSE, buttons |-> << <<>> >>, one_time |-> TRUE]
    /\ kb_call = [op |-> "none"]

NoButton == [made |-> FALSE]

BtnIdle ==
    /\ button = NoButton
    /\ coloured = <<>>

Init ==
    /\ release \in BOOLEAN
    /\ commands \in {SubSeq(Pool, 1, n) : n \in 0..MaxUnits}
    /\ BotStart
    /\ ListIdle
    /\ CutterIdle
    /\ CmdIdle
    /\ RunIdle
    /\ WaiterIdle
    /\ KbIdle
    /\ BtnIdle

\* ------------------------------------------------------------------ listen_events

\* The first type-4 event after position `from`: the loop suspends on its
\* messages.get_by_id lookup.  Len(all) + 1 when the loop reaches the end of
\* the list and suspends on the generator.
NextStop(all, from) ==
    LET S == {j \in (from + 1)..Len(all) : all[j] = "4"}
    IN  IF S = {} THEN Len(all) + 1 ELSE SetMin(S)

Ext(seq, k, d) == seq \o [i \in 1..k |-> d]

\* listen_events runs on from event `from` + 1 of `all` until it suspends;
\* `pre` are the events it dispatches before it goes on (the enriched one).
Advance(all, from, pre) ==
    LET stop == NextStop(all, from)
        passed == (from + 1)..(stop - 1)
        new == Len(all) - Len(events)
        D == pre \cup {e \in passed : all[e] = "message_new"}
        G == {e \in passed \cup pre : from_group(all[e])}
        freshUnits == [i \in 1..Len(commands) |-> RunningUnit(commands[i])]
    IN  /\ events' = all
        /\ lpc' = IF stop <= Len(all) THEN "lookup" ELSE "poll"
        /\ cursor' = stop - 1
        /\ on_signals' = on_signals \cup G
        /\ bpc' = [e \in 1..Len(all) |->
                     IF e \in D THEN "gather"
                     ELSE IF e <= Len(events) THEN bpc[e] ELSE "none"]
        /\ unit' = [e \in 1..Len(all) |->
                     IF e \in D THEN freshUnits
                     ELSE IF e <= Len(events) THEN unit[e] ELSE <<>>]
        /\ order' = Ext(order, new, <<>>)
        /\ handling_info' = Ext(handling_info, new, <<>>)
        /\ debugged' = Ext(debugged, new, NoDebug)
        /\ signalled' = Ext(signalled, new, <<>>)

\* `async for events in self.shared_box.events_generator` hands over a list of
\* events; the loop body runs until its next suspension.
ListenPoll ==
    /\ lpc = "poll"
    /\ \E k \in 1..MaxEvents :
         /\ Len(events) + k <= MaxEvents
         /\ (Len(events) + k) * Len(commands) <= MaxUnits
         /\ \E evs \in [1..k -> EventTypes] :
              Advance(events \o evs, cursor, {})
    /\ UNCHANGED <<release, commands, enriched, traceback, notBot>>

\* messages.get_by_id answers: set_message, create the batch's task, and on
\* with the rest of the list.
LookupDone ==
    /\ lpc = "lookup"
    /\ enriched' = enriched \cup {cursor + 1}
    /\ Advance(events, cursor + 1, {cursor + 1})
    /\ UNCHANGED <<release, commands, traceback, notBot>>

\* ------------------------------------------------------------------ pass_event_trough_commands

\* Whether task i of a batch can take its next step, written as if the
\* commands were awaited one after another in registry order.
Runnable_afterEarlierUnits(us, i) ==
    /\ us[i].st = "running"
    /\ \A j \in 1..(i - 1) : us[j].st # "running"

\* Whether task i of a batch can take its next step: every command's
\* handle_event is its own task (asyncio.create_task), so a running task
\* waits for none of its siblings.
Runnable(us, i) == us[i].st = "running"

\* One command's handle_event task completes.  gather cancels nothing when a
\* sibling raises, so a task also completes after its batch has ended.
HandleEventDone ==
    \E e \in DOMAIN unit : \E i \in DOMAIN unit[e] : \E outcome \in UnitOutcomes :
        /\ Runnable(unit[e], i)
        /\ unit' = [unit EXCEPT ![e][i] = handle_event(commands[i], outcome)]
        /\ order' = [order EXCEPT ![e] = Append(@, i)]
        /\ UNCHANGED <<notBot, release, commands, events, lpc, cursor, enriched, on_signals,
                       bpc, handling_info, debugged, signalled, traceback>>

\* `handling_info = await asyncio.gather(*tasks)` returns: the else branch.
GatherReturn ==
    \E e \in DOMAIN bpc :
        /\ bpc[e] = "gather"
        /\ GatherReturns(unit[e])
        /\ handling_info' = [handling_info EXCEPT ![e] = GatherValue(unit[e], order[e])]
        /\ bpc' = [bpc EXCEPT ![e] = IF ~release THEN "debug" ELSE "signal"]
        /\ UNCHANGED <<notBot, release, commands, events, lpc, cursor, enriched, on_signals,
                       unit, order, debugged, signalled, traceback>>

\* gather raises: `except Exception: traceback.print_exc()`.
GatherRaise ==
    \E e \in DOMAIN bpc :
        /\ bpc[e] = "gather"
        /\ GatherRaises(unit[e])
        /\ bpc' = [bpc EXCEPT ![e] = AfterGatherException]
        /\ traceback' = IF AfterGatherException = "failed"
                        THEN traceback \cup {e} ELSE traceback
        /\ UNCHANGED <<notBot, release, commands, events, lpc, cursor, enriched, on_signals,
                       unit, order, handling_info, debugged, signalled>>

\* show_debug_info: the debug filter decides whether the debugger renders;
\* render() raises when build_separator's os.get_terminal_size() does (no
\* terminal), and the exception leaves pass_event_trough_commands.
ShowDebugInfo ==
    \E e \in DOMAIN bpc :
        /\ bpc[e] = "debug"
        /\ \/ /\ debugged' = [debugged EXCEPT ![e] =
                     [shown |-> "filtered", schemes |-> <<>>, exceptions |-> <<>>]]
              /\ bpc' = [bpc EXCEPT ![e] = "signal"]
           \/ /\ debugged' = [debugged EXCEPT ![e] =
                     [shown |-> "rendered", schemes |-> handling_info[e],
                      exceptions |-> build_exception(handling_info[e])]]
              /\ bpc' = [bpc EXCEPT ![e] = "signal"]
           \/ /\ debugged' = [debugged EXCEPT ![e] =
                     [shown |-> "raised", schemes |-> handling_info[e],
                      exceptions |-> <<>>]]
              /\ bpc' = [bpc EXCEPT ![e] = "crashed"]
        /\ UNCHANGED <<notBot, release, commands, events, lpc, cursor, enriched, on_signals,
                       unit, order, handling_info, signalled, traceback>>

\* _call_post_event_handling_signal(event, handling_info).
CallPostEventHandlingSignal ==
    \E e \in DOMAIN bpc :
        /\ bpc[e] = "signal"
        /\ signalled' = [signalled EXCEPT ![e] = Append(@, <<e, handling_info[e]>>)]
        /\ bpc' = [bpc EXCEPT ![e] = "done"]
        /\ UNCHANGED <<notBot, release, commands, events, lpc, cursor, enriched, on_signals,
                       unit, order, handling_info, debugged, traceback>>

Next ==
    \/ ListenPoll
    \/ LookupDone
    \/ HandleEventDone
    \/ GatherReturn
    \/ GatherRaise
    \/ ShowDebugInfo
    \/ CallPostEventHandlingSignal

Spec == Init /\ [][Next]_vars

\* ------------------------------------------------------------------ List.cut_part

\* A List over a Bool element, with any bounds the dataclass accepts, about to
\* cut any string.
ListInit ==
    /\ release = FALSE
    /\ commands = <<>>
    /\ BotStart
    /\ min_length \in 0..MaxMin
    /\ max_length \in {Ellipsis} \cup (0..MaxMax)
    /\ arguments_string \in Strings(MaxLen)
    /\ cut_result = NoResult
    /\ CutterIdle
    /\ CmdIdle
    /\ RunIdle
    /\ WaiterIdle
    /\ KbIdle
    /\ BtnIdle

ListCutPart ==
    /\ cut_result.kind = "none"
    /\ cut_result' = List_cut_part(arguments_string, min_length, max_length)
    /\ UNCHANGED <<notList, min_length, max_length, arguments_string>>

ListNext == ListCutPart

SpecList == ListInit /\ [][ListNext]_vars

\* ------------------------------------------------------------------ one cutter, one call

\* The letters the extension aliases are made of: "y" and "n" are built-in
\* aliases (of True and of False), "k" is not.
ExtLetters == {"k", "y", "n"}

\* The extension aliases: the words over ExtLetters that are not built-in.
AliasPool ==
    UNION {[1..k -> ExtLetters] : k \in 1..MaxAlias}
        \ (Range(true_values) \cup Range(false_values))

Extensions == UNION {[1..k -> AliasPool] : k \in 0..MaxExt}

BoolCutters ==
    {Bool(t, f) : <<t, f>> \in {p \in Extensions \X Extensions :
                                   Range(p[1]) \cap Range(p[2]) = {}}}

Upper(c) ==
    IF \E u \in DOMAIN LowerMap : LowerMap[u] = c
    THEN CHOOSE u \in DOMAIN LowerMap : LowerMap[u] = c
    ELSE c

\* An alias as written, in capitals, and with a capital first letter.
CaseVariants(a) ==
    { a,
      [i \in 1..Len(a) |-> Upper(a[i])],
      [i \in 1..Len(a) |-> IF i = 1 THEN Upper(a[i]) ELSE a[i]] }

Tails == {<<>>, <<" ", "x">>}

\* The strings a Bool matcher is called on: each of its aliases, in the three
\* letter cases, alone or followed by more text, and a string it does not match.
BoolTexts(self) ==
    {<<"x">>} \cup
    { v \o t : v \in UNION {CaseVariants(a) :
                              a \in Range(self.true_regex) \cup Range(self.false_regex)},
               t \in Tails }

NumAlphabet == Digits \cup SignClass \cup {".", "x"}

NumTexts == UNION {[1..k -> NumAlphabet] : k \in 0..MaxNum}

SimpleTexts == UNION {[1..k -> {"4", "x", "\n"}] : k \in 0..MaxSimple}

CutterInit ==
    /\ release = FALSE
    /\ commands = <<>>
    /\ BotStart
    /\ ListIdle
    /\ \/ cutter \in BoolCutters /\ text \in BoolTexts(cutter)
       \/ cutter = [cls |-> "Integer"] /\ text \in NumTexts
       \/ cutter \in {SimplifiedTextArgument(p) : p \in Patterns} /\ text \in SimpleTexts
    /\ cut = NoCut
    /\ CmdIdle
    /\ RunIdle
    /\ WaiterIdle
    /\ KbIdle
    /\ BtnIdle

BoolCutPart ==
    /\ cutter.cls = "Bool"
    /\ cut.kind = "none"
    /\ cut' = Cut(Bool_cut_part_of(cutter, text))
    /\ UNCHANGED <<notCutter, cutter, text>>

IntegerCutPart ==
    /\ cutter.cls = "Integer"
    /\ cut.kind = "none"
    /\ cut' = Cut(Integer_cut_part(text))
    /\ UNCHANGED <<notCutter, cutter, text>>

SimplifiedCutPart ==
    /\ cutter.cls = "SimplifiedTextArgument"
    /\ cut.kind = "none"
    /\ cut' = Cut(Simplified_cut_part(cutter, text))
    /\ UNCHANGED <<notCutter, cutter, text>>

CutterNext == BoolCutPart \/ IntegerCutPart \/ SimplifiedCutPart

SpecCutters == CutterInit /\ [][CutterNext]_vars

\* ------------------------------------------------------------------ one command, one event

\* The chains of up to MaxFilters filters: each is a plain filter or an
\* argument cutter, and the cutter at position i binds the name i.
Chains == UNION {[1..k -> {"filter", "cutter"}] : k \in 0..MaxFilters}

\* Where the evaluation goes after filter i of chain gave its decision,
\* written as if a failed filter did not stop the chain.
AfterDecision_noShortCircuit(chain, i, passed) ==
    IF i < Len(chain)
    THEN [cpc |-> "EVALUATING_FILTER", cur |-> i + 1]
    ELSE [cpc |-> IF passed THEN "PASSED_ALL" ELSE "FAILED_AT", cur |-> i]

\* Where the evaluation goes after filter i of chain gave its decision: the
\* first failing filter halts the chain, a passing one hands over to the
\* next filter or, after the last, to the reaction.
AfterDecision(chain, i, passed) ==
    IF ~passed THEN [cpc |-> "FAILED_AT", cur |-> i]
    ELSE IF i < Len(chain) THEN [cpc |-> "EVALUATING_FILTER", cur |-> i + 1]
    ELSE [cpc |-> "PASSED_ALL", cur |-> i]

CmdInit ==
    /\ release = FALSE
    /\ commands = <<>>
    /\ BotStart
    /\ ListIdle
    /\ CutterIdle
    /\ filter_chain \in Chains
    /\ cpc = "PENDING"
    /\ cur = 0
    /\ status = FreshStatus
    /\ invoked = 0
    /\ RunIdle
    /\ WaiterIdle
    /\ KbIdle
    /\ BtnIdle

\* PENDING -> EVALUATING_FILTER[1], or PASSED_ALL for an empty chain
StartEvaluation ==
    /\ cpc = "PENDING"
    /\ IF filter_chain = <<>>
       THEN /\ cpc' = "PASSED_ALL"
            /\ cur' = 0
            /\ status' = [status EXCEPT !.all_filters_passed = TRUE]
       ELSE /\ cpc' = "EVALUATING_FILTER"
            /\ cur' = 1
            /\ status' = status
    /\ UNCHANGED <<notCmd, filter_chain, invoked>>

\* EVALUATING_FILTER[i]: the filter gives its decision; a passing argument
\* cutter binds its value.
EvaluateFilter ==
    /\ cpc = "EVALUATING_FILTER"
    /\ \E passed \in BOOLEAN :
        LET after == AfterDecision(filter_chain, cur, passed)
            bound == IF passed /\ filter_chain[cur] = "cutter"
                     THEN Append(status.passed_arguments, cur)
                     ELSE status.passed_arguments
        IN  /\ cpc' = after.cpc
            /\ cur' = after.cur
            /\ status' = [status EXCEPT
                   !.filters_response = Append(@, [passed |-> passed, filter |-> cur]),
                   !.passed_arguments = bound,
                   !.all_filters_passed = (after.cpc = "PASSED_ALL")]
    /\ UNCHANGED <<notCmd, filter_chain, invoked>>

\* FAILED_AT[i] -> SHORT_CIRCUITED
ShortCircuit ==
    /\ cpc = "FAILED_AT"
    /\ cpc' = "SHORT_CIRCUITED"
    /\ UNCHANGED <<notCmd, filter_chain, cur, status, invoked>>

\* PASSED_ALL -> REACTION_RUNNING
InvokeReaction ==
    /\ cpc = "PASSED_ALL"
    /\ cpc' = "REACTION_RUNNING"
    /\ invoked' = invoked + 1
    /\ UNCHANGED <<notCmd, filter_chain, cur, status>>

\* REACTION_RUNNING -> COMPLETED: an exception of the reaction is recorded
ReactionEnds ==
    /\ cpc = "REACTION_RUNNING"
    /\ cpc' = "COMPLETED"
    /\ \E text_of_exception \in {"", "Traceback"} :
           status' = [status EXCEPT !.exception_text = text_of_exception]
    /\ UNCHANGED <<notCmd, filter_chain, cur, invoked>>

CmdNext ==
    \/ StartEvaluation
    \/ EvaluateFilter
    \/ ShortCircuit
    \/ InvokeReaction
    \/ ReactionEnds

SpecCommand == CmdInit /\ [][CmdNext]_vars

\* ------------------------------------------------------------------ run / async_run

\* How an awaited call can end: it returns, it raises, or the task is
\* cancelled while it waits.
AwaitOutcomes == {"returned", "raised", "cancelled"}

\* Where control goes when the try block of async_run is left, written as
\* if there were no finally block.
AfterTry_noFinally == "ended"

\* Where control goes when the try block of async_run is left, however it
\* is left: the finally block, which first awaits the SHUTDOWN signal.
AfterTry == "SHUTDOWN"

Why(outcome, error) == IF outcome = "cancelled" THEN "cancellation" ELSE error

Leave(why) ==
    /\ rpc' = AfterTry
    /\ cause' = why

RunInit ==
    /\ release \in BOOLEAN
    /\ commands = <<>>
    /\ BotStart
    /\ ListIdle
    /\ CutterIdle
    /\ CmdIdle
    /\ RunIdle
    /\ WaiterIdle
    /\ KbIdle
    /\ BtnIdle

\* run: asyncio.run(self.async_run()); the coroutine enters its try block
AsyncRun ==
    /\ rpc = "created"
    /\ rpc' = "STARTUP"
    /\ UNCHANGED <<notRun, called, cause, fin>>

\* await sync_async_run(self.call_signal.via_name(ReservedSignal.STARTUP))
Startup ==
    /\ rpc = "STARTUP"
    /\ called' = Append(called, "STARTUP")
    /\ \E o \in AwaitOutcomes :
        IF o = "returned"
        THEN rpc' = "setup" /\ cause' = cause
        ELSE Leave(Why(o, "error in STARTUP"))
    /\ UNCHANGED <<notRun, fin>>

\* listen_events: await self.shared_box.events_generator.setup()
Setup ==
    /\ rpc = "setup"
    /\ called' = Append(called, "setup")
    /\ \E o \in AwaitOutcomes :
        IF o = "returned"
        THEN rpc' = "listening" /\ cause' = cause
        ELSE Leave(Why(o, "error while listening"))
    /\ UNCHANGED <<notRun, fin>>

Lists == Len(SelectSeq(called, LAMBDA c : c = "events"))

\* listen_events: `async for events in ...` waits for the next list: the
\* generator yields one, ends, or raises.
Listen ==
    /\ rpc = "listening"
    /\ \/ /\ Lists < MaxLists
          /\ called' = Append(called, "events")
          /\ rpc' = "processing"
          /\ cause' = cause
       \/ /\ called' = called
          /\ \E why \in {"normal end", "error while listening", "cancellation"} :
                 Leave(why)
    /\ UNCHANGED <<notRun, fin>>

\* listen_events: the body of the loop over one list of events, with its
\* await of messages.get_by_id
Process ==
    /\ rpc = "processing"
    /\ \E o \in AwaitOutcomes :
        IF o = "returned"
        THEN rpc' = "listening" /\ cause' = cause
        ELSE Leave(Why(o, "error while listening"))
    /\ UNCHANGED <<notRun, called, fin>>

\* finally: await sync_async_run(self.call_signal.via_name(ReservedSignal.SHUTDOWN));
\* when it does not return, the rest of the finally block is skipped.
Shutdown ==
    /\ rpc = "SHUTDOWN"
    /\ called' = Append(called, "SHUTDOWN")
    /\ \E o \in AwaitOutcomes :
        IF o = "returned"
        THEN rpc' = "close_session" /\ fin' = fin
        ELSE rpc' = "ended" /\ fin' = "SHUTDOWN " \o o
    /\ UNCHANGED <<notRun, cause>>

\* finally: await self.shared_box.events_generator.close_session(); then
\* async_run is over, and so is run: nothing called it again.
CloseSession ==
    /\ rpc = "close_session"
    /\ called' = Append(called, "close_session")
    /\ rpc' = "ended"
    /\ \E o \in AwaitOutcomes : fin' = "close_session " \o o
    /\ UNCHANGED <<notRun, cause>>

RunNext ==
    \/ AsyncRun
    \/ Startup
    \/ Setup
    \/ Listen
    \/ Process
    \/ Shutdown
    \/ CloseSession

SpecRun == RunInit /\ [][RunNext]_vars

\* ------------------------------------------------------------------ fetch_new_event / _set_new_event

\* waiter = asyncio.Future(): pending, created when `since` events had been
\* received; its coroutine is suspended on `await waiter`.
NewFuture(since) ==
    [state |-> "pending", result |-> 0, since |-> since, co |-> "suspended"]

\* Bot._set_new_event: `for waiter in self.event_waiters:
\* waiter.set_result(event)`.  set_result on a future that already has a
\* result raises InvalidStateError, which ends the loop: the waiters before
\* it have the event, those after it do not.
set_new_event(waiters, fs, event) ==
    LET resolved == {k \in 1..Len(waiters) : fs[waiters[k]].state = "done"}
        stop == IF resolved = {} THEN Len(waiters) + 1 ELSE SetMin(resolved)
        given == {waiters[k] : k \in 1..(stop - 1)}
    IN  [futures |-> [f \in DOMAIN fs |->
                         IF f \in given
                         THEN [fs[f] EXCEPT !.state = "done", !.result = event]
                         ELSE fs[f]],
         raised |-> resolved # {}]

WaiterInit ==
    /\ release = FALSE
    /\ commands = <<>>
    /\ BotStart
    /\ ListIdle
    /\ CutterIdle
    /\ CmdIdle
    /\ RunIdle
    /\ WaiterIdle
    /\ KbIdle
    /\ BtnIdle

\* fetch_new_event up to `new_event = await waiter`
FetchNewEvent ==
    /\ Len(futures) < MaxWaiters
    /\ futures' = Append(futures, NewFuture(received))
    /\ event_waiters' = Append(event_waiters, Len(futures) + 1)
    /\ UNCHANGED <<notWaiter, received, deliveries>>

\* listen_events takes an event from the generator and dispatches it: the
\* loop creates the batch's task and the on_<type> signal task, and calls
\* nothing that touches event_waiters.
ListenReceive ==
    /\ received < MaxReceived
    /\ received' = received + 1
    /\ UNCHANGED <<notWaiter, event_waiters, futures, deliveries>>

\* a call of _set_new_event with an event the bot has received
SetNewEvent ==
    /\ Len(deliveries) < MaxSets
    /\ \E event \in 1..received :
        LET r == set_new_event(event_waiters, futures, event)
        IN  /\ futures' = r.futures
            /\ deliveries' = Append(deliveries, [event |-> event, raised |-> r.raised])
    /\ UNCHANGED <<notWaiter, event_waiters, received>>

\* fetch_new_event after `await waiter`: the coroutine of a resolved future
\* is resumed, removes its waiter and returns the event
FetchResume ==
    \E w \in DOMAIN futures :
        /\ futures[w].state = "done"
        /\ futures[w].co = "suspended"
        /\ event_waiters' = SelectSeq(event_waiters, LAMBDA x : x # w)
        /\ futures' = [futures EXCEPT ![w].co = "returned"]
        /\ UNCHANGED <<notWaiter, received, deliveries>>

WaiterNext ==
    \/ FetchNewEvent
    \/ ListenReceive
    \/ SetNewEvent
    \/ FetchResume

SpecWaiters == WaiterInit /\ [][WaiterNext]_vars

\* ------------------------------------------------------------------ Keyboard

\* The schemes of the buttons put into keyboards here.
ButtonSchemes == {1, 2}

\* Keyboard.__init__: one line, empty; one_time only when not inline.
Keyboard(one_time, inline) ==
    IF inline
    THEN [inline |-> TRUE, buttons |-> << <<>> >>]
    ELSE [inline |-> FALSE, buttons |-> << <<>> >>, one_time |-> one_time]

\* Keyboard.add, written as if the button went to the first line.
Keyboard_add_toFirstLine(sch, b) ==
    [sch EXCEPT !.buttons[1] = Append(@, b)]

\* Keyboard.add: self.scheme["buttons"][-1].append(button.scheme)
Keyboard_add(sch, b) ==
    [sch EXCEPT !.buttons[Len(sch.buttons)] = Append(@, b)]

\* Keyboard.add_line: the test is `not self.scheme["buttons"]`, the list of
\* lines, not its last line.
Keyboard_add_line(sch) ==
    IF sch.buttons = <<>>
    THEN [raised |-> TRUE, scheme |-> sch]
    ELSE [raised |-> FALSE, scheme |-> [sch EXCEPT !.buttons = Append(@, <<>>)]]

\* Keyboard.build: the loop over the arguments; a ValueError of add_line
\* leaves it with what was done so far.
RECURSIVE Keyboard_build(_, _)
Keyboard_build(sch, args) ==
    IF args = <<>> THEN [raised |-> FALSE, scheme |-> sch]
    ELSE IF Head(args) = Ellipsis
    THEN LET r == Keyboard_add_line(sch)
         IN  IF r.raised THEN r ELSE Keyboard_build(r.scheme, Tail(args))
    ELSE Keyboard_build(Keyboard_add(sch, Head(args)), Tail(args))

RECURSIVE Flatten(_)
Flatten(lines) == IF lines = <<>> THEN <<>> ELSE Head(lines) \o Flatten(Tail(lines))

WithinKeyboardBounds(sch) ==
    /\ Len(sch.buttons) <= MaxLines
    /\ Len(Flatten(sch.buttons)) <= MaxButtons

BuildArgs == UNION {[1..k -> ButtonSchemes \cup {Ellipsis}] : k \in 0..MaxArgs}

KbInit ==
    /\ release = FALSE
    /\ commands = <<>>
    /\ BotStart
    /\ ListIdle
    /\ CutterIdle
    /\ CmdIdle
    /\ RunIdle
    /\ WaiterIdle
    /\ BtnIdle
    /\ scheme \in {Keyboard(o, i) : o \in BOOLEAN, i \in BOOLEAN}
    /\ kb_call = [op |-> "none"]

KbAdd ==
    \E b \in ButtonSchemes :
        /\ WithinKeyboardBounds(Keyboard_add(scheme, b))
        /\ scheme' = Keyboard_add(scheme, b)
        /\ kb_call' = [op |-> "add", args |-> <<b>>, raised |-> FALSE]
        /\ UNCHANGED notKb

KbAddLine ==
    LET r == Keyboard_add_line(scheme)
    IN  /\ WithinKeyboardBounds(r.scheme)
        /\ scheme' = r.scheme
        /\ kb_call' = [op |-> "add_line", args |-> <<>>, raised |-> r.raised]
        /\ UNCHANGED notKb

KbBuild ==
    \E args \in BuildArgs :
        LET r == Keyboard_build(scheme, args)
        IN  /\ WithinKeyboardBounds(r.scheme)
            /\ scheme' = r.scheme
            /\ kb_call' = [op |-> "build", args |-> args, raised |-> r.raised]
            /\ UNCHANGED notKb

KbNext == KbAdd \/ KbAddLine \/ KbBuild

SpecKeyboard == KbInit /\ [][KbNext]_vars

\* ------------------------------------------------------------------ Button

\* The static constructors decorated with _payload_convert.
Factories == {"text", "open_link", "location", "vkpay", "open_app"}

\* The methods decorated with _is_text_button.
ColourMethods == {"positive", "negative", "secondary", "primary"}

\* What a constructor is given as payload.
PayloadKinds == {"None", "dict", "JSON str", "other str", "int"}

\* _payload_convert on the payload: None is deleted from the action, a dict
\* is dumped, a str must load as JSON, anything else is a TypeError.
payload_convert(kind) ==
    CASE kind = "None" -> [raised |-> "", payload |-> "absent"]
      [] kind = "dict" -> [raised |-> "", payload |-> "dumped dict"]
      [] kind = "JSON str" -> [raised |-> "", payload |-> "JSON str"]
      [] kind = "other str" -> [raised |-> "ValueError", payload |-> "other str"]
      [] OTHER -> [raised |-> "TypeError", payload |-> kind]

\* Button.__init__: self.info = {"action": {**info}}; no "color" key yet ("").
Button(has_type, type, payload) ==
    [made |-> TRUE, info_is_None |-> FALSE,
     info |-> [action |-> [has_type |-> has_type, type |-> type, payload |-> payload],
               color |-> ""]]

\* Button.line(): self.info = None
Button_line ==
    [made |-> TRUE, info_is_None |-> TRUE,
     info |-> [action |-> [has_type |-> FALSE, type |-> "", payload |-> "absent"],
               color |-> ""]]

\* A colour method, written as if it did not look at the action type.
is_text_button_anyType(btn, name) ==
    [raised |-> "", button |-> [btn EXCEPT !.info.color = name]]

\* _is_text_button's wrapper around the colour method `name`:
\* self.info["action"]["type"] is read first (TypeError on info None,
\* KeyError on an action without "type"), and the colour is set only when it
\* is "text".
is_text_button(btn, name) ==
    IF btn.info_is_None THEN [raised |-> "TypeError", button |-> btn]
    ELSE IF ~btn.info.action.has_type THEN [raised |-> "KeyError", button |-> btn]
    ELSE IF btn.info.action.type = "text"
         THEN [raised |-> "", button |-> [btn EXCEPT !.info.color = name]]
         ELSE [raised |-> "TypeError", button |-> btn]

BtnInit ==
    /\ release = FALSE
    /\ commands = <<>>
    /\ BotStart
    /\ ListIdle
    /\ CutterIdle
    /\ CmdIdle
    /\ RunIdle
    /\ WaiterIdle
    /\ KbIdle
    /\ BtnIdle

\* Button.text(...), Button.open_link(...), ...: the action gets
\* type=func.__name__ and the converted payload
ButtonFactory ==
    /\ ~button.made
    /\ coloured = <<>>
    /\ \E f \in Factories, kind \in PayloadKinds :
        LET p == payload_convert(kind)
        IN  /\ button' = IF p.raised = "" THEN Button(TRUE, f, p.payload) ELSE button
            /\ coloured' = <<[method |-> f, raised |-> p.raised]>>
    /\ UNCHANGED notBtn

\* Button(**info) with no "type" among the keywords, and Button.line()
ButtonDirect ==
    /\ ~button.made
    /\ coloured = <<>>
    /\ \/ /\ button' = Button(FALSE, "", "absent")
          /\ coloured' = <<[method |-> "Button", raised |-> ""]>>
       \/ /\ button' = Button_line
          /\ coloured' = <<[method |-> "line", raised |-> ""]>>
    /\ UNCHANGED notBtn

\* button.positive(), .negative(), .secondary(), .primary()
ButtonColour ==
    /\ button.made
    /\ Len(coloured) <= MaxColourCalls
    /\ \E name \in ColourMethods :
        LET r == is_text_button(button, name)
        IN  /\ button' = r.button
            /\ coloured' = Append(coloured, [method |-> name, raised |-> r.raised])
    /\ UNCHANGED notBtn

BtnNext == ButtonFactory \/ ButtonDirect \/ ButtonColour

SpecButton == BtnInit /\ [][BtnNext]_vars

\* ------------------------------------------------------------------ the claims on the dispatcher

\* The batches whose gather has returned (the else branch was entered).
Returned(e) == bpc[e] \in {"debug", "signal", "done", "crashed"}

\* The batches that have ended.
Ended(e) == bpc[e] \in {"done", "crashed", "failed"}

AllDone(e) == \A i \in DOMAIN unit[e] : unit[e][i].st = "done"

\* C1: whatever the order in which the command evaluations of a batch
\* complete, the statuses gather yields, and the statuses handed to the
\* debugger and to the POST_EVENT_HANDLING signal, are in registry order:
\* status i is the status of command i's task and names command i.
C1_RegistryOrder ==
    \A e \in DOMAIN bpc :
        Returned(e) =>
            /\ Len(handling_info[e]) = Len(commands)
            /\ \A i \in 1..Len(commands) :
                 /\ handling_info[e][i] = StatusOf(unit[e][i])
                 /\ handling_info[e][i].handler = commands[i]
            /\ \A k \in DOMAIN signalled[e] :
                 \A i \in 1..Len(commands) :
                     signalled[e][k][2][i].handler = commands[i]
            /\ debugged[e].shown = "rendered" =>
                 \A i \in 1..Len(commands) :
                     debugged[e].schemes[i].handler = commands[i]

\* A batch over three commands or more whose last command completed first and
\* whose first command completed last, and whose statuses reached the signal.
C1_Witness ==
    \E e \in DOMAIN bpc :
        /\ Len(commands) >= 3
        /\ bpc[e] = "done"
        /\ signalled[e] # <<>>
        /\ order[e][1] = Len(commands)
        /\ order[e][Len(commands)] = 1

\* C2: a reaction that raises does not abort its batch.  In a batch whose
\* units all came back from handle_event, gather does not raise and no
\* traceback is printed; the statuses it yields are complete, each names its
\* command, and exactly the commands whose reaction raised carry an
\* exception_text; the debugger renders exactly those statuses and lists
\* exactly the raising commands as exceptions; every POST_EVENT_HANDLING
\* notification carries the event and those statuses.
C2_ReactionIsolation ==
    \A e \in DOMAIN bpc :
        (bpc[e] # "none" /\ AllDone(e)) =>
            /\ bpc[e] # "failed"
            /\ e \notin traceback
            /\ Returned(e) =>
                 /\ Len(handling_info[e]) = Len(commands)
                 /\ \A i \in 1..Len(commands) :
                      /\ handling_info[e][i].handler = commands[i]
                      /\ (handling_info[e][i].exception_text # "")
                            <=> (unit[e][i].reaction = "raised")
            /\ debugged[e].shown = "rendered" =>
                 /\ debugged[e].schemes = handling_info[e]
                 /\ Range(debugged[e].exceptions) =
                      {commands[i] : i \in {j \in 1..Len(commands) :
                                              unit[e][j].reaction = "raised"}}
            /\ \A k \in DOMAIN signalled[e] : signalled[e][k] = <<e, handling_info[e]>>

\* A batch over [A, B, C] in which B's reaction raised and A's and C's
\* returned, rendered by the debugger and notified to the signal.
C2_Witness ==
    \E e \in DOMAIN bpc :
        /\ Len(commands) = 3
        /\ Len(unit[e]) = 3
        /\ unit[e][1].reaction = "returned"
        /\ unit[e][2].reaction = "raised"
        /\ unit[e][3].reaction = "returned"
        /\ debugged[e].shown = "rendered"
        /\ debugged[e].exceptions = <<"B">>
        /\ Len(signalled[e]) = 1
        /\ signalled[e][1][2][2].exception_text # ""
        /\ signalled[e][1][2][1] = [handler |-> "A", exception_text |-> ""]
        /\ signalled[e][1][2][3] = [handler |-> "C", exception_text |-> ""]

\* C3 (as claimed): when a unit of a batch raised outside the reaction
\* boundary, the batch has ended and its other units have completed, every
\* status those units produced has been handed to the POST_EVENT_HANDLING
\* signal.
C3_OutcomesNotDropped ==
    \A e \in DOMAIN bpc :
        ( /\ Ended(e)
          /\ \E i \in DOMAIN unit[e] : unit[e][i].st = "failed"
          /\ \A i \in DOMAIN unit[e] : unit[e][i].st # "running" ) =>
            \A j \in DOMAIN unit[e] :
                unit[e][j].st = "done" =>
                    \E k \in DOMAIN signalled[e] :
                        StatusOf(unit[e][j]) \in Range(signalled[e][k][2])

\* C4: the debugger and the POST_EVENT_HANDLING signal get a batch only after
\* every command evaluation of that batch has completed.
C4_Barrier ==
    \A e \in DOMAIN bpc :
        (Returned(e) \/ debugged[e].shown # "none" \/ signalled[e] # <<>>) =>
            \A i \in DOMAIN unit[e] : unit[e][i].st # "running"

\* A batch of two units or more, rendered and notified.
C4_Witness ==
    \E e \in DOMAIN bpc :
        /\ Len(commands) >= 2
        /\ Len(unit[e]) = Len(commands)
        /\ debugged[e].shown = "rendered"
        /\ signalled[e] # <<>>

\* C5 (as claimed): a received command-bearing event whose batch has not been
\* started is waiting for nothing but its own enrichment lookup.
C5_DispatchedOnReceipt ==
    \A e \in DOMAIN events :
        (CommandBearing(events[e]) /\ bpc[e] = "none") =>
            (lpc = "lookup" /\ e = cursor + 1)

\* C6: a unit that raises does not end event processing.  The exception is
\* caught in pass_event_trough_commands (the batch ends with the traceback
\* printed, never with an exception leaving it), the listener's state is not
\* touched by the failing batch, and the listener can take the generator's
\* next events.
C6_UnitFailureContained ==
    /\ \A e \in DOMAIN bpc :
         (bpc[e] # "none" /\ \E i \in DOMAIN unit[e] : unit[e][i].st = "failed") =>
             /\ bpc[e] \in {"gather", "failed"}
             /\ bpc[e] = "failed" <=> e \in traceback
    /\ (lpc = "poll" /\ Len(events) < MaxEvents
           /\ (Len(events) + 1) * Len(commands) <= MaxUnits) => ENABLED ListenPoll
    /\ lpc = "lookup" => ENABLED LookupDone

\* The first event's batch ended on a unit failure and a later event was
\* dispatched and its batch notified.
C6_Witness ==
    /\ Len(events) >= 2
    /\ bpc[1] = "failed"
    /\ order[2] # <<>>
    /\ Head(order[1]) = 1
    /\ unit[1][1].st = "failed"
    /\ bpc[2] = "done"
    /\ signalled[2] # <<>>

\* C7 (as claimed): a batch that ended and in which no unit failed was
\* notified to POST_EVENT_HANDLING exactly once, with its event and statuses.
C7_SignalledOnce ==
    \A e \in DOMAIN bpc :
        (Ended(e) /\ AllDone(e)) =>
            /\ Len(signalled[e]) = 1
            /\ signalled[e][1] = <<e, handling_info[e]>>

\* ------------------------------------------------------------------ the claims on List

\* The texts of the well-formed elements, and the value each is cut to.
ElementTexts == {"1", "0"}

ValueOf(c) == IF c = "1" THEN "True" ELSE "False"

ElemSeqs == UNION {[1..k -> ElementTexts] : k \in 0..MaxMax}

\* e1 " " e2 " " ... ek " ": k elements, each followed by one space.
Lead(es) == [i \in 1..(2 * Len(es)) |-> IF i % 2 = 1 THEN es[(i + 1) \div 2] ELSE " "]

StartsWith(s, p) == Len(p) <= Len(s) /\ SubSeq(s, 1, Len(p)) = p

\* The number of elements the element cutter cuts in a row from the string,
\* whitespace between them stripped.
RECURSIVE ElemCount(_)
ElemCount(s) ==
    LET r == Bool_cut_part(lstrip(s))
    IN  IF r.value = UnmatchedArgument THEN 0 ELSE 1 + ElemCount(r.rest)

ConsistentBounds == max_length = Ellipsis \/ min_length <= max_length

\* C8 (as claimed): with min_length = m <= max_length = n, a string of k
\* elements (m <= k <= n) separated by spaces and followed by trailing text
\* that no element matches is Matched with those k values in order, and the
\* remainder is the trailing text (up to the whitespace before it).
C8_ListMatchesWithinBounds ==
    cut_result.kind # "none" =>
        \A es \in ElemSeqs :
            LET tail == Drop(arguments_string, Len(Lead(es)))
            IN  ( /\ StartsWith(arguments_string, Lead(es))
                  /\ tail # <<>>
                  /\ Head(tail) = "x"
                  /\ max_length # Ellipsis
                  /\ min_length <= Len(es)
                  /\ Len(es) <= max_length ) =>
                    /\ cut_result.kind = "Matched"
                    /\ cut_result.values = [i \in 1..Len(es) |-> ValueOf(es[i])]
                    /\ lstrip(cut_result.remainder) = tail

\* C9 (as claimed): a string with fewer than min_length elements is Unmatched,
\* and the remainder returned is the string List.cut_part was called on.
C9_UnmatchedKeepsInput ==
    (cut_result.kind # "none" /\ ConsistentBounds
        /\ ElemCount(arguments_string) < min_length) =>
            /\ cut_result.kind = "Unmatched"
            /\ cut_result.remainder = arguments_string

\* C10 (as claimed): a Matched result holds at least min_length values and, with
\* a bounded max_length, at most max_length; with max_length values cut the
\* element cutter was called exactly max_length times and the rest of the
\* string is the remainder.
C10_MatchedWithinBounds ==
    cut_result.kind = "Matched" =>
        /\ Len(cut_result.values) >= min_length
        /\ max_length # Ellipsis =>
             /\ Len(cut_result.values) <= max_length
             /\ Len(cut_result.values) = max_length =>
                  /\ cut_result.calls = max_length
                  /\ cut_result.remainder =
                       Drop(arguments_string,
                            Len(arguments_string) - Len(cut_result.remainder))

\* C11 (as claimed): when List.cut_part stops on the element cutter's failure
\* with enough values, the remainder is the text as it stood before the
\* failed attempt: the space between the last element and the trailing text
\* is still there.
C11_RemainderBeforeFailedAttempt ==
    cut_result.kind = "Matched" =>
        \A es \in ElemSeqs :
            LET tail == Drop(arguments_string, Len(Lead(es)))
            IN  ( /\ es # <<>>
                  /\ StartsWith(arguments_string, Lead(es))
                  /\ tail # <<>>
                  /\ Head(tail) = "x"
                  /\ Len(cut_result.values) = Len(es)
                  /\ cut_result.calls = Len(es) + 1 ) =>
                    cut_result.remainder = <<" ">> \o tail

\* C12 (as claimed): a List whose bounded max_length is smaller than its
\* min_length never gets to run cut_part.
C12_ContradictoryBoundsRejected ==
    cut_result.kind # "none" => ConsistentBounds

\* ------------------------------------------------------------------ claims on the cutters

SameFold(a, b) == Len(a) = Len(b) /\ IsPrefix(a, b)

BoolReturned == cutter.cls = "Bool" /\ cut.kind = "returned"

\* The extension lists a Bool matcher was built with: what follows the
\* built-in aliases in its alternations.
true_extension_of(self) == Drop(self.true_regex, Len(true_values))

false_extension_of(self) == Drop(self.false_regex, Len(false_values))

\* C13 (as claimed): Bool.cut_part on an alias of true_extension, in any
\* letter case, returns True with an empty remainder, and on an alias of
\* false_extension False with an empty remainder.
C13_ExtensionAliasMatchesWhole ==
    BoolReturned =>
        /\ \A a \in Range(true_extension_of(cutter)) :
               SameFold(a, text) => cut.result = [value |-> "True", rest |-> <<>>]
        /\ \A a \in Range(false_extension_of(cutter)) :
               SameFold(a, text) => cut.result = [value |-> "False", rest |-> <<>>]

\* C14 (as claimed): when Bool.cut_part matches, no alias of the matching
\* set that is a prefix of the input is longer than what was consumed.
C14_LongestAliasConsumed ==
    (BoolReturned /\ cut.result.value # UnmatchedArgument) =>
        LET set == IF cut.result.value = "True"
                   THEN cutter.true_regex ELSE cutter.false_regex
            consumed == Len(text) - Len(cut.result.rest)
        IN  \A a \in Range(set) : IsPrefix(a, text) => Len(a) <= consumed

\* The shape the specification gives the numeric matcher: an optional + or -,
\* a run of digits, an optional fraction.  The end of the longest prefix of s
\* of that shape, 0 when s does not begin with one.
NumericShape(s) ==
    LET sign == IF s # <<>> /\ Head(s) \in {"+", "-"} THEN 1 ELSE 0
        d == DigitRun(Drop(s, sign))
        b == Drop(s, sign + d)
        f == IF b # <<>> /\ Head(b) = "." THEN DigitRun(Tail(b)) ELSE 0
    IN  IF d = 0 THEN 0
        ELSE IF f > 0 THEN sign + d + 1 + f
        ELSE sign + d

\* C15 (as claimed): the numeric matcher matches exactly the inputs that
\* begin with a signed or unsigned digit run with or without a fraction, and
\* consumes exactly that prefix.
C15_NumericShapeMatched ==
    (cutter.cls = "Integer" /\ cut.kind = "returned") =>
        LET n == NumericShape(text)
        IN  IF n > 0
            THEN cut.result = [matched |-> TRUE, value |-> SubSeq(text, 1, n),
                               rest |-> Drop(text, n)]
            ELSE ~cut.result.matched

\* C16 (as claimed): a quick-build matcher matches by the pattern it was
\* built from: an input that pattern rejects is unmatched, an input it
\* accepts is cut where the pattern's match ends.
C16_MatchesByOwnPattern ==
    (cutter.cls = "SimplifiedTextArgument" /\ cut.kind = "returned") =>
        LET n == PatternEnd(cutter.built_from, text)
        IN  IF n > 0
            THEN cut.result = [matched |-> TRUE, value |-> SubSeq(text, 1, n),
                               rest |-> Drop(text, n)]
            ELSE ~cut.result.matched

\* ------------------------------------------------------------------ claims on one command's evaluation

\* The names bound by the argument cutters among the first n filters of the chain.
RECURSIVE BoundBefore(_, _)
BoundBefore(chain, n) ==
    IF n = 0 THEN <<>>
    ELSE IF chain[n] = "cutter" THEN Append(BoundBefore(chain, n - 1), n)
    ELSE BoundBefore(chain, n - 1)

\* C17: the filters of a command run in declaration order; once a filter has
\* failed no later filter or argument cutter runs and the reaction is not
\* invoked, all_filters_passed is false and passed_arguments holds exactly
\* the bindings of the cutters evaluated before the failure.
C17_ShortCircuit ==
    LET fr == status.filters_response
    IN  /\ Len(fr) <= Len(filter_chain)
        /\ \A k \in 1..Len(fr) : fr[k].filter = k
        /\ \A k \in 1..Len(fr) :
               ~fr[k].passed =>
                   /\ k = Len(fr)
                   /\ cpc \in {"FAILED_AT", "SHORT_CIRCUITED"}
                   /\ invoked = 0
                   /\ ~status.all_filters_passed
                   /\ status.passed_arguments = BoundBefore(filter_chain, k - 1)

\* The second of three filters failed after an argument cutter had bound its value.
C17_Witness ==
    /\ cpc = "SHORT_CIRCUITED"
    /\ Len(filter_chain) = 3
    /\ filter_chain[1] = "cutter"
    /\ filter_chain[3] = "cutter"
    /\ Len(status.filters_response) = 2
    /\ ~status.filters_response[2].passed
    /\ status.passed_arguments = <<1>>

\* ------------------------------------------------------------------ claims on the run

ShutdownReturned == fin \in {"close_session " \o o : o \in AwaitOutcomes}

\* C18 (amended): STARTUP is called before anything is listened for; when the
\* run has ended, however the try block was left, SHUTDOWN was called once,
\* after every other call but close_session; close_session was called, right
\* after it, exactly when the SHUTDOWN call returned.
C18_Lifecycle ==
    /\ \A i \in 1..Len(called) :
           called[i] \in {"setup", "events"} => (i > 1 /\ called[1] = "STARTUP")
    /\ rpc = "ended" =>
           LET n == Len(called)
           IN  /\ cause # "none"
               /\ Len(SelectSeq(called, LAMBDA c : c = "SHUTDOWN")) = 1
               /\ IF ShutdownReturned
                  THEN n >= 2 /\ called[n - 1] = "SHUTDOWN" /\ called[n] = "close_session"
                  ELSE /\ called[n] = "SHUTDOWN"
                       /\ Len(SelectSeq(called, LAMBDA c : c = "close_session")) = 0

\* The run ended on an error raised after a list of events had been received,
\* and the session was closed.
C18_Witness ==
    /\ rpc = "ended"
    /\ cause = "error while listening"
    /\ Lists >= 1
    /\ fin = "close_session returned"

\* C18 (as claimed): when the run has ended, SHUTDOWN was called and then the
\* session was closed.
C18_AlwaysClosed ==
    rpc = "ended" =>
        /\ Len(called) >= 2
        /\ called[Len(called) - 1] = "SHUTDOWN"
        /\ called[Len(called)] = "close_session"

\* C19 (as claimed): with the release flag set, an exception raised while
\* listening does not end the run.
C19_ReleaseNeverGoesDown ==
    release => ~(cause = "error while listening" /\ rpc = "ended")

\* ------------------------------------------------------------------ claims on the reporting of a batch

\* The exception texts the batch of event e has put on the screen: those in
\* the debugger's rendering, if there was one.
PrintedExceptions(e) ==
    IF debugged[e].shown = "rendered"
    THEN show_debug_message_for_release(debugged[e].schemes)
    ELSE <<>>

\* C20 (as claimed): a processed batch has shown the debugger's output (if
\* the debug filter lets the event through) when the release flag is off,
\* and has printed the exception_text of every status that has one when the
\* release flag is on.
C20_ReleaseShowsExceptions ==
    \A e \in DOMAIN bpc :
        bpc[e] = "done" =>
            IF ~release
            THEN debugged[e].shown \in {"filtered", "rendered"}
            ELSE PrintedExceptions(e) = show_debug_message_for_release(handling_info[e])

\* ------------------------------------------------------------------ claims on fetch_new_event

\* C21 (as claimed, for a finite run): once the bot has received an event
\* after a reaction began to wait in fetch_new_event, that reaction's future
\* holds the first such event.
C21_NextEventDelivered ==
    \A w \in DOMAIN futures :
        futures[w].since < received =>
            /\ futures[w].state = "done"
            /\ futures[w].result = futures[w].since + 1

\* C23 (as claimed): no call of _set_new_event finds an already resolved
\* future in event_waiters: no delivery raises.
C23_OnlyPendingWaitersSet ==
    \A k \in DOMAIN deliveries : ~deliveries[k].raised

\* ------------------------------------------------------------------ claims on a reaction that never completes

\* C22: while a unit is still running (its reaction may never complete),
\* every other running unit, of the same batch or of another, can complete;
\* every other batch whose units have all completed can leave its gather;
\* and the listener can go on dispatching events.
C22_HungUnitBlocksOnlyItself ==
    \A e \in DOMAIN unit : \A i \in DOMAIN unit[e] :
        unit[e][i].st = "running" =>
            /\ \A e2 \in DOMAIN unit : \A j \in DOMAIN unit[e2] :
                   (<<e2, j>> # <<e, i>> /\ unit[e2][j].st = "running") =>
                       ENABLED (HandleEventDone /\ unit'[e2][j].st # "running")
            /\ \A e2 \in DOMAIN bpc :
                   ( /\ e2 # e
                     /\ bpc[e2] = "gather"
                     /\ \A j \in DOMAIN unit[e2] : unit[e2][j].st # "running" ) =>
                       ENABLED ((GatherReturn \/ GatherRaise) /\ bpc'[e2] # "gather")
            /\ (lpc = "poll" /\ Len(events) < MaxEvents
                   /\ (Len(events) + 1) * Len(commands) <= MaxUnits) => ENABLED ListenPoll
            /\ lpc = "lookup" => ENABLED LookupDone

\* The first unit of the first batch is still running; its sibling has
\* completed, and the batch of a later event has been started and completed.
C22_Witness ==
    /\ Len(events) >= 2
    /\ Len(unit[1]) >= 2
    /\ unit[1][1].st = "running"
    /\ unit[1][2].st = "done"
    /\ bpc[1] = "gather"
    /\ bpc[2] = "done"
    /\ signalled[2] # <<>>

\* ------------------------------------------------------------------ claims on the keyboard

\* C24 (as claimed): no line before the last line of the keyboard is empty:
\* add_line has never added a line after an empty one.
C24_NoEmptyLineBeforeLast ==
    \A k \in 1..(Len(scheme.buttons) - 1) : scheme.buttons[k] # <<>>

\* The buttons among args after its k-th Ellipsis and before the next one.
RECURSIVE Segment(_, _)
Segment(args, k) ==
    IF args = <<>> THEN <<>>
    ELSE IF Head(args) = Ellipsis
         THEN IF k = 0 THEN <<>> ELSE Segment(Tail(args), k - 1)
         ELSE IF k = 0 THEN <<Head(args)>> \o Segment(Tail(args), k)
              ELSE Segment(Tail(args), k)

\* What build(args) is to make of the scheme old: the lines before the last
\* one as they were, the last one with the buttons up to the first Ellipsis
\* appended, one new line per Ellipsis holding the buttons that follow it,
\* the buttons in argument order, and inline and one_time as they were.
Built(old, new, args) ==
    LET n == Len(old.buttons)
        ellipses == Len(SelectSeq(args, LAMBDA a : a = Ellipsis))
    IN  /\ Len(new.buttons) = n + ellipses
        /\ \A k \in 1..(n - 1) : new.buttons[k] = old.buttons[k]
        /\ new.buttons[n] = old.buttons[n] \o Segment(args, 0)
        /\ \A k \in 1..ellipses : new.buttons[n + k] = Segment(args, k)
        /\ Flatten(new.buttons) =
               Flatten(old.buttons) \o SelectSeq(args, LAMBDA a : a # Ellipsis)
        /\ DOMAIN new = DOMAIN old
        /\ new.inline = old.inline
        /\ "one_time" \in DOMAIN old => new.one_time = old.one_time
        /\ "one_time" \in DOMAIN new <=> ~new.inline

HasActionType(btn) == btn.made /\ ~btn.info_is_None /\ btn.info.action.has_type

\* C26: a colour method called on a button whose action type is "text" sets
\* info["color"] to the method's name and nothing else; called on a button
\* of another action type it raises TypeError and leaves the button as it
\* was; and no button other than a text button ever carries a colour.
C26_ColourOnlyOnText ==
    [][ /\ (button.made /\ Len(coloured') = Len(coloured) + 1) =>
               LET call == coloured'[Len(coloured')]
               IN  /\ call.method \in ColourMethods
                   /\ HasActionType(button) =>
                          IF button.info.action.type = "text"
                          THEN /\ call.raised = ""
                               /\ button' = [button EXCEPT !.info.color = call.method]
                          ELSE /\ call.raised = "TypeError"
                               /\ button' = button
        /\ (button'.made /\ button'.info.color # "") =>
               (HasActionType(button') /\ button'.info.action.type = "text") ]_vars

\* Two colour methods were called on a vkpay button: the second raised
\* TypeError as well and the button carries no colour.
C26_Witness ==
    /\ Len(coloured) = 3
    /\ button.info.action.type = "vkpay"
    /\ coloured[3] = [method |-> "negative", raised |-> "TypeError"]
    /\ button.info.color = ""

====
